---------------------------- MODULE Spec2Model ----------------------------
(***************************************************************************)
(* Model of lime/lime_text.py: IndexedString (tokenisation, feature ids,   *)
(* removal / reconstruction) and LimeTextExplainer (neighbourhood          *)
(* generation and assembly of the explanation).                            *)
(*                                                                         *)
(* Strings are sequences of one-character strings.  Token indices and      *)
(* feature ids are 0-based as in the Python code; TLA+ sequences are       *)
(* 1-based, so the element with Python index i is seq[i + 1].              *)
(***************************************************************************)
EXTENDS Integers, Sequences, FiniteSets, TLC

VARIABLES
    indexed_string,   \* the IndexedString object (a record of its fields), or None
    op,               \* the IndexedString method last called and its argument
    ret,              \* what that call returned or raised
    self_bow,         \* LimeTextExplainer.bow
    class_names,      \* LimeTextExplainer.class_names
    ctor_class_names, \* the class_names argument the explainer was constructed with
    pc,               \* position inside explain_instance
    args,             \* arguments of the running explain_instance call
    sample,           \* __data_labels_distances: sample
    data,             \* __data_labels_distances: data
    inverse_data,     \* __data_labels_distances: inverse_data
    classifier_calls, \* argument lists classifier_fn received during the call
    yss,              \* row 0 of the classifier's output (yss[0]) and its width
    distances,        \* __data_labels_distances: distances
    ret_exp,          \* the Explanation being assembled / returned
    err               \* the exception that ended the call, or None

vars == <<indexed_string, op, ret, self_bow, class_names, ctor_class_names, pc,
          args, sample, data, inverse_data, classifier_calls, yss, distances,
          ret_exp, err>>

\* Python's None, for the variables that otherwise hold a record
None == [none |-> TRUE]
NoError == "None"

-----------------------------------------------------------------------------
(* Bounds of the model                                                     *)

MaxLen == 5         \* longest raw string indexed on its own
MaxIds == 2         \* longest free list of ids handed to an IndexedString method
MaxDocLen == 3      \* longest text handed to explain_instance
MaxSamples == 3     \* largest num_samples
MaxClasses == 3     \* most columns of the classifier's output

WordChars == {"a", "b"}
Alphabet == WordChars \cup {" "}
Probs == {1, 2, 3}  \* the probabilities a classifier may report (relative scores)

Strings(n) == UNION {[1..k -> Alphabet] : k \in 0..n}

-----------------------------------------------------------------------------
(* Python helpers                                                          *)

\* the regular-expression class \W on one character
IsW(c) == c \notin WordChars

\* Python sequence indexing: -n..n-1 are accepted, negative ones count from
\* the end; anything else raises IndexError
PyInRange(n, id) == -n <= id /\ id < n
PyNorm(n, id) == IF id < 0 THEN id + n ELSE id

Ok(v) == [status |-> "ok", value |-> v]
Raise(e) == [status |-> e, value |-> <<>>]

RECURSIVE Join(_)
Join(toks) == IF toks = <<>> THEN <<>> ELSE Head(toks) \o Join(Tail(toks))

RECURSIVE SumLen(_)
SumLen(toks) == IF toks = <<>> THEN 0 ELSE Len(Head(toks)) + SumLen(Tail(toks))

-----------------------------------------------------------------------------
(* IndexedString.__init__                                                  *)

\* last position of the maximal run of \W characters that starts at i
RECURSIVE RunEnd(_, _)
RunEnd(s, i) == IF i < Len(s) /\ IsW(s[i + 1]) THEN RunEnd(s, i + 1) ELSE i

\* a split without the capturing group: the separator is dropped
SplitPieceDropSep(s, last, i, j) == <<SubSeq(s, last, i - 1)>>
\* one match of (\W+) at s[i..j]: the text since the last match, then the
\* captured separator
SplitPiece(s, last, i, j) == <<SubSeq(s, last, i - 1), SubSeq(s, i, j)>>

\* re.split(r'(\W+)', s), scanning from position i; last is where the text
\* after the previous match starts
RECURSIVE SplitFrom(_, _, _, _)
SplitFrom(s, last, i, acc) ==
    IF i > Len(s) THEN Append(acc, SubSeq(s, last, Len(s)))
    ELSE IF IsW(s[i])
         THEN LET j == RunEnd(s, i)
              IN SplitFrom(s, j + 1, j + 1, acc \o SplitPiece(s, last, i, j))
         ELSE SplitFrom(s, last, i + 1, acc)

re_split(s) == SplitFrom(s, 1, 1, <<>>)

\* re.compile(r'\W+').match(word): a match must start at the first character
non_word(word) == word # <<>> /\ IsW(word[1])

\* np.hstack(([0], np.cumsum([len(x) for x in as_np[:-1]])))
string_start_of(as_list) ==
    [k \in 1..Len(as_list) |-> SumLen(SubSeq(as_list, 1, k - 1))]

\* the loop of __init__ over enumerate(as_np), from 0-based token index i;
\* st holds vocab, inverse_vocab, positions and non_vocab
RECURSIVE IndexLoop(_, _, _, _)
IndexLoop(as_list, bow, i, st) ==
    IF i >= Len(as_list) THEN st
    ELSE LET w == as_list[i + 1] IN
         IF w \in st.non_vocab THEN IndexLoop(as_list, bow, i + 1, st)
         ELSE IF non_word(w)
         THEN IndexLoop(as_list, bow, i + 1,
                        [st EXCEPT !.non_vocab = @ \cup {w}])
         ELSE IF bow
         THEN LET new == w \notin DOMAIN st.vocab
                  vocab == IF new
                           THEN st.vocab @@ (w :> Cardinality(DOMAIN st.vocab))
                           ELSE st.vocab
                  inv == IF new THEN Append(st.inverse_vocab, w)
                         ELSE st.inverse_vocab
                  pos == IF new THEN Append(st.positions, <<>>)
                         ELSE st.positions
                  idx_word == vocab[w]
              IN IndexLoop(as_list, bow, i + 1,
                     [st EXCEPT !.vocab = vocab, !.inverse_vocab = inv,
                                !.positions = [pos EXCEPT ![idx_word + 1] =
                                                  Append(@, i)]])
         ELSE IndexLoop(as_list, bow, i + 1,
                     [st EXCEPT !.inverse_vocab = Append(@, w),
                                !.positions = Append(@, i)])

IndexedString(raw_string, bow) ==
    LET as_list == re_split(raw_string)
        st == IndexLoop(as_list, bow, 0,
                        [vocab |-> <<>>, inverse_vocab |-> <<>>,
                         positions |-> <<>>, non_vocab |-> {}])
    IN [raw |-> raw_string,
        as_list |-> as_list,
        string_start |-> string_start_of(as_list),
        inverse_vocab |-> st.inverse_vocab,
        positions |-> st.positions,
        bow |-> bow]

-----------------------------------------------------------------------------
(* IndexedString methods                                                   *)

raw_string(s) == s.raw

num_words(s) == Len(s.inverse_vocab)

word(s, id) ==
    IF PyInRange(Len(s.inverse_vocab), id)
    THEN Ok(s.inverse_vocab[PyNorm(Len(s.inverse_vocab), id) + 1])
    ELSE Raise("IndexError")

string_position(s, id) ==
    IF ~PyInRange(Len(s.positions), id) THEN Raise("IndexError")
    ELSE LET p == s.positions[PyNorm(Len(s.positions), id) + 1] IN
         IF s.bow
         THEN Ok([k \in 1..Len(p) |-> s.string_start[p[k] + 1]])
         ELSE Ok(<<s.string_start[p + 1]>>)

\* a lookup that yields only the first occurrence of the word
BowOccurrencesFirstOnly(s, z) ==
    <<s.positions[PyNorm(Len(s.positions), z) + 1][1]>>
\* positions[z] of one feature in bag-of-words mode: every occurrence
BowOccurrences(s, z) == s.positions[PyNorm(Len(s.positions), z) + 1]

RECURSIVE ChainPositions(_, _)
ChainPositions(s, words) ==
    IF words = <<>> THEN <<>>
    ELSE BowOccurrences(s, Head(words)) \o ChainPositions(s, Tail(words))

\* __get_idxs: the token indices the feature ids address
get_idxs(s, words) ==
    IF \E k \in 1..Len(words) : ~PyInRange(Len(s.positions), words[k])
    THEN Raise("IndexError")
    ELSE IF s.bow
    THEN Ok(ChainPositions(s, words))
    ELSE Ok([k \in 1..Len(words) |->
                s.positions[PyNorm(Len(s.positions), words[k]) + 1]])

RECURSIVE JoinKept(_, _, _)
JoinKept(as_list, i, removed) ==
    IF i >= Len(as_list) THEN <<>>
    ELSE (IF i \in removed THEN <<>> ELSE as_list[i + 1])
         \o JoinKept(as_list, i + 1, removed)

inverse_removing(s, words_to_remove) ==
    LET idxs == get_idxs(s, words_to_remove) IN
    IF idxs.status # "ok" THEN idxs
    ELSE Ok(JoinKept(s.as_list, 0,
                     {idxs.value[k] : k \in 1..Len(idxs.value)}))

-----------------------------------------------------------------------------
(* Calls on a free-standing IndexedString                                  *)

NoOp == [name |-> "none", arg |-> <<>>]

\* ids tried on an object with k features: every valid id, the negative ids
\* Python accepts, and one id beyond each end
IdRange(k) == -(k + 1)..k

RECURSIVE Ascending(_)
Ascending(S) ==
    IF S = {} THEN <<>>
    ELSE LET m == CHOOSE x \in S : \A y \in S : x <= y
         IN <<m>> \o Ascending(S \ {m})

\* id lists tried: every set of valid ids, and every short list over IdRange
IdLists(k) ==
    {Ascending(S) : S \in SUBSET (0..k - 1)}
    \cup UNION {[1..n -> IdRange(k)] : n \in 0..MaxIds}

ExplainerUnchanged ==
    UNCHANGED <<self_bow, class_names, ctor_class_names, pc, args, sample, data,
                inverse_data, classifier_calls, yss, distances, ret_exp, err>>

InitIdx ==
    /\ \E r \in Strings(MaxLen), b \in BOOLEAN :
           indexed_string = IndexedString(r, b)
    /\ op = NoOp
    /\ ret = None
    /\ self_bow = TRUE
    /\ class_names = None
    /\ ctor_class_names = None
    /\ pc = "idle"
    /\ args = None
    /\ sample = <<>>
    /\ data = <<>>
    /\ inverse_data = <<>>
    /\ classifier_calls = <<>>
    /\ yss = None
    /\ distances = <<>>
    /\ ret_exp = None
    /\ err = NoError

CallNumWords ==
    /\ op = NoOp
    /\ op' = [name |-> "num_words", arg |-> <<>>]
    /\ ret' = Ok(num_words(indexed_string))
    /\ UNCHANGED indexed_string
    /\ ExplainerUnchanged

CallWord ==
    /\ op = NoOp
    /\ \E id \in IdRange(num_words(indexed_string)) :
           /\ op' = [name |-> "word", arg |-> <<id>>]
           /\ ret' = word(indexed_string, id)
    /\ UNCHANGED indexed_string
    /\ ExplainerUnchanged

CallStringPosition ==
    /\ op = NoOp
    /\ \E id \in IdRange(num_words(indexed_string)) :
           /\ op' = [name |-> "string_position", arg |-> <<id>>]
           /\ ret' = string_position(indexed_string, id)
    /\ UNCHANGED indexed_string
    /\ ExplainerUnchanged

CallInverseRemoving ==
    /\ op = NoOp
    /\ \E words \in IdLists(num_words(indexed_string)) :
           /\ op' = [name |-> "inverse_removing", arg |-> words]
           /\ ret' = inverse_removing(indexed_string, words)
    /\ UNCHANGED indexed_string
    /\ ExplainerUnchanged

\* the caller takes the result; the object is unchanged and can be called again
CallReturns ==
    /\ op # NoOp
    /\ op' = NoOp
    /\ ret' = None
    /\ UNCHANGED indexed_string
    /\ ExplainerUnchanged

NextIdx ==
    \/ CallNumWords
    \/ CallWord
    \/ CallStringPosition
    \/ CallInverseRemoving
    \/ CallReturns

SpecIdx == InitIdx /\ [][NextIdx]_vars

-----------------------------------------------------------------------------
(* Claims about IndexedString, checked under SpecIdx                       *)

IsCall(name) == op.name = name
Features == 0..num_words(indexed_string) - 1

\* C1: for every raw string and both indexing modes, inverse_removing([])
\* returns exactly the raw string, separators included.
C1_EmptyRemovalReturnsRaw ==
    (IsCall("inverse_removing") /\ op.arg = <<>>)
        => ret = Ok(indexed_string.raw)

\* the round trip on a positional document that starts and ends with a
\* separator and holds a word in between
C1_Witness ==
    /\ IsCall("inverse_removing") /\ op.arg = <<>>
    /\ ~indexed_string.bow
    /\ Len(indexed_string.raw) >= 3
    /\ IsW(indexed_string.raw[1])
    /\ IsW(indexed_string.raw[Len(indexed_string.raw)])
    /\ \E k \in 1..Len(indexed_string.raw) : ~IsW(indexed_string.raw[k])
    /\ ret = Ok(indexed_string.raw)

\* the maximal runs of word characters of r, as <<first, last>> positions
WordRuns(r) ==
    {run \in (1..Len(r)) \X (1..Len(r)) :
        /\ run[1] <= run[2]
        /\ \A k \in run[1]..run[2] : ~IsW(r[k])
        /\ (run[1] = 1 \/ IsW(r[run[1] - 1]))
        /\ (run[2] = Len(r) \/ IsW(r[run[2] + 1]))}

WordCount(r, bow) ==
    IF bow THEN Cardinality({SubSeq(r, run[1], run[2]) : run \in WordRuns(r)})
    ELSE Cardinality(WordRuns(r))

\* C2: num_words() is the number of distinct word strings (bag of words) or
\* of word tokens (positional) of the document, for every document.
C2_NumWordsCountsWords ==
    IsCall("num_words")
        => ret = Ok(WordCount(indexed_string.raw, indexed_string.bow))

\* the tokens that are occurrences of a feature in S: in bag-of-words mode the
\* tokens spelling the word of a feature in S, in positional mode the z-th
\* token that is not a separator, for z in S
IsFeatureToken(s, i) == ~non_word(s.as_list[i + 1])
OccurrencesOf(s, S) ==
    {i \in 0..Len(s.as_list) - 1 :
        /\ IsFeatureToken(s, i)
        /\ IF s.bow
           THEN \E z \in S : s.as_list[i + 1] = s.inverse_vocab[z + 1]
           ELSE Cardinality({j \in 0..i - 1 : IsFeatureToken(s, j)}) \in S}

RECURSIVE TokensOutside(_, _, _)
TokensOutside(toks, i, gone) ==
    IF toks = <<>> THEN <<>>
    ELSE (IF i \in gone THEN <<>> ELSE <<Head(toks)>>)
         \o TokensOutside(Tail(toks), i + 1, gone)

ArgSet == {op.arg[k] : k \in 1..Len(op.arg)}

\* C3: for every set S of valid feature ids, inverse_removing(S) is the
\* concatenation, in order, of exactly the tokens that are not occurrences of
\* a feature in S (all occurrences of a word in bag-of-words mode, the one
\* addressed occurrence in positional mode).
C3_RemovesExactlyOccurrences ==
    (IsCall("inverse_removing") /\ ArgSet \subseteq Features)
        => ret = Ok(Join(TokensOutside(indexed_string.as_list, 0,
                             OccurrencesOf(indexed_string, ArgSet))))

\* bag of words: a word that occurs twice is removed, another word stays
C3_Witness ==
    /\ IsCall("inverse_removing")
    /\ indexed_string.bow
    /\ Len(op.arg) = 1 /\ op.arg[1] \in Features
    /\ indexed_string.inverse_vocab[op.arg[1] + 1] # <<>>
    /\ Len(indexed_string.positions[op.arg[1] + 1]) >= 2
    /\ num_words(indexed_string) >= 2
    /\ ret.status = "ok"
    /\ Len(ret.value) < Len(indexed_string.raw) - 1

\* C4: for every id outside 0..K-1, negative or too large, word(id),
\* string_position(id) and inverse_removing([id]) end in an error.
C4_InvalidIdRaises ==
    (/\ op.name \in {"word", "string_position", "inverse_removing"}
     /\ Len(op.arg) = 1
     /\ op.arg[1] \notin Features)
        => ret.status # "ok"

-----------------------------------------------------------------------------
(* float64 arithmetic of numpy / scikit-learn: IEEE 754 binary64 with       *)
(* round to nearest, ties to even.  A natural number is its sequence of     *)
(* base-2^15 digits, least significant first, without leading zeros; a      *)
(* float is sign, 53-bit significand and exponent:                          *)
(* (-1)^neg * man * 2^exp.  Zero has the empty significand.                 *)

DigitBits == 15
Base == 32768
Precision == 53

RECURSIVE Pow2(_)
Pow2(k) == IF k = 0 THEN 1 ELSE 2 * Pow2(k - 1)

RECURSIVE Trim(_)
Trim(a) == IF a = <<>> \/ a[Len(a)] # 0 THEN a ELSE Trim(SubSeq(a, 1, Len(a) - 1))

Digits(n) == Trim(<<n % Base, n \div Base>>)

RECURSIVE AddC(_, _, _)
AddC(a, b, c) ==
    IF a = <<>> /\ b = <<>> THEN (IF c = 0 THEN <<>> ELSE <<c>>)
    ELSE LET t == (IF a = <<>> THEN 0 ELSE Head(a))
                  + (IF b = <<>> THEN 0 ELSE Head(b)) + c
         IN <<t % Base>> \o AddC(IF a = <<>> THEN a ELSE Tail(a),
                                 IF b = <<>> THEN b ELSE Tail(b), t \div Base)
BAdd(a, b) == AddC(a, b, 0)

\* a - b for a >= b
RECURSIVE SubB(_, _, _)
SubB(a, b, c) ==
    IF a = <<>> THEN <<>>
    ELSE LET t == Head(a) - (IF b = <<>> THEN 0 ELSE Head(b)) - c
         IN <<t % Base>> \o SubB(Tail(a), IF b = <<>> THEN b ELSE Tail(b),
                                 IF t < 0 THEN 1 ELSE 0)
BSub(a, b) == Trim(SubB(a, b, 0))

RECURSIVE LessFrom(_, _, _)
LessFrom(a, b, k) ==
    IF k = 0 THEN FALSE
    ELSE IF a[k] # b[k] THEN a[k] < b[k]
    ELSE LessFrom(a, b, k - 1)
BLess(a, b) ==
    IF Len(a) # Len(b) THEN Len(a) < Len(b) ELSE LessFrom(a, b, Len(a))

\* a * d for one digit d
RECURSIVE MulDigit(_, _, _)
MulDigit(a, d, c) ==
    IF a = <<>> THEN (IF c = 0 THEN <<>> ELSE <<c>>)
    ELSE LET t == Head(a) * d + c
         IN <<t % Base>> \o MulDigit(Tail(a), d, t \div Base)

RECURSIVE BMul(_, _)
BMul(a, b) ==
    IF a = <<>> \/ b = <<>> THEN <<>>
    ELSE BAdd(Trim(MulDigit(a, Head(b), 0)),
              LET rest == BMul(a, Tail(b))
              IN IF rest = <<>> THEN <<>> ELSE <<0>> \o rest)

\* a * 2^k
Shl(a, k) ==
    IF a = <<>> THEN <<>>
    ELSE [i \in 1..(k \div DigitBits) |-> 0]
         \o MulDigit(a, Pow2(k % DigitBits), 0)

\* a div d for one digit d # 0; r is the remainder carried down
RECURSIVE DivDigit(_, _, _)
DivDigit(a, d, r) ==
    IF a = <<>> THEN <<>>
    ELSE LET t == r * Base + a[Len(a)]
         IN Append(DivDigit(SubSeq(a, 1, Len(a) - 1), d, t % d), t \div d)

\* a div 2^k
Shr(a, k) ==
    Trim(DivDigit(SubSeq(a, k \div DigitBits + 1, Len(a)),
                  Pow2(k % DigitBits), 0))

RECURSIVE SmallBitLen(_)
SmallBitLen(n) == IF n = 0 THEN 0 ELSE 1 + SmallBitLen(n \div 2)
BitLen(a) ==
    IF a = <<>> THEN 0 ELSE DigitBits * (Len(a) - 1) + SmallBitLen(a[Len(a)])

\* bit k of a, bit 0 being the least significant
Bit(a, k) ==
    IF k \div DigitBits + 1 > Len(a) THEN 0
    ELSE (a[k \div DigitBits + 1] \div Pow2(k % DigitBits)) % 2

\* x with bit k set, for an x whose bits k and below are clear
WithBit(x, k) == BAdd(x, Shl(<<1>>, k))

\* the largest q with q * d <= n; st holds the next bit to try and the
\* quotient found so far
RECURSIVE FloorDivFrom(_, _, _)
FloorDivFrom(n, d, st) ==
    IF st.k < 0 THEN st.q
    ELSE FloorDivFrom(n, d,
             [k |-> st.k - 1,
              q |-> IF BLess(n, BMul(WithBit(st.q, st.k), d))
                    THEN st.q ELSE WithBit(st.q, st.k)])
BDiv(n, d) ==
    IF BLess(n, d) THEN <<>>
    ELSE FloorDivFrom(n, d, [k |-> BitLen(n) - BitLen(d), q |-> <<>>])

\* the largest r with r * r <= n
RECURSIVE FloorSqrtFrom(_, _)
FloorSqrtFrom(n, st) ==
    IF st.k < 0 THEN st.q
    ELSE FloorSqrtFrom(n,
             [k |-> st.k - 1,
              q |-> IF BLess(n, BMul(WithBit(st.q, st.k), WithBit(st.q, st.k)))
                    THEN st.q ELSE WithBit(st.q, st.k)])
BSqrt(n) == FloorSqrtFrom(n, [k |-> BitLen(n) \div 2, q |-> <<>>])

FZero == [neg |-> FALSE, man |-> <<>>, exp |-> 0]

\* the float nearest to (-1)^neg * (n + s) * 2^e, where 0 <= s < 1 and
\* sticky says s > 0; ties go to the even significand
Round(neg, n, e, sticky) ==
    IF n = <<>> THEN FZero
    ELSE IF BitLen(n) <= Precision
    THEN [neg |-> neg, man |-> Shl(n, Precision - BitLen(n)),
          exp |-> e - (Precision - BitLen(n))]
    ELSE LET sh == BitLen(n) - Precision
             q == Shr(n, sh)
             half == Bit(n, sh - 1) = 1
             below == sticky \/ \E k \in 0..sh - 2 : Bit(n, k) = 1
             up == half /\ (below \/ Bit(q, 0) = 1)
             q2 == IF up THEN BAdd(q, <<1>>) ELSE q
         IN IF BitLen(q2) > Precision
            THEN [neg |-> neg, man |-> Shr(q2, 1), exp |-> e + sh + 1]
            ELSE [neg |-> neg, man |-> q2, exp |-> e + sh]

FromInt(n) == Round(n < 0, Digits(IF n < 0 THEN -n ELSE n), 0, FALSE)

FMul(x, y) ==
    IF x.man = <<>> \/ y.man = <<>> THEN FZero
    ELSE Round(x.neg # y.neg, BMul(x.man, y.man), x.exp + y.exp, FALSE)

FAdd(x, y) ==
    IF x.man = <<>> THEN y
    ELSE IF y.man = <<>> THEN x
    ELSE LET e == IF x.exp < y.exp THEN x.exp ELSE y.exp
             mx == Shl(x.man, x.exp - e)
             my == Shl(y.man, y.exp - e)
         IN IF x.neg = y.neg THEN Round(x.neg, BAdd(mx, my), e, FALSE)
            ELSE IF mx = my THEN FZero
            ELSE IF BLess(mx, my) THEN Round(y.neg, BSub(my, mx), e, FALSE)
            ELSE Round(x.neg, BSub(mx, my), e, FALSE)

\* x / y for y # 0
FDiv(x, y) ==
    IF x.man = <<>> THEN FZero
    ELSE LET n == Shl(x.man, Precision + 3)
             q == BDiv(n, y.man)
         IN Round(x.neg # y.neg, q, x.exp - (Precision + 3) - y.exp,
                  BMul(q, y.man) # n)

\* sqrt(x) for x >= 0
FSqrt(x) ==
    IF x.man = <<>> THEN FZero
    ELSE LET k == IF x.exp % 2 = 0 THEN Precision + 5 ELSE Precision + 6
             n == Shl(x.man, k)
             r == BSqrt(n)
         IN Round(FALSE, r, (x.exp - k) \div 2, BMul(r, r) # n)

FLess(x, y) == LET d == FAdd(x, [y EXCEPT !.neg = ~y.neg])
               IN d.man # <<>> /\ d.neg

-----------------------------------------------------------------------------
(* distance_fn: sklearn.metrics.pairwise.cosine_distances(x[0], x)[0] * 100 *)
(* on the sparse binary matrix                                              *)

One == FromInt(1)

\* most features a text of MaxDocLen characters can have: every other token
\* of the split is a feature
MaxFeatures == (MaxDocLen + 1) \div 2 + 1

Ones(row) == {k \in 1..Len(row) : row[k] = 1}

\* normalize(X): an entry of a row with m ones after dividing by the row's
\* l2 norm, sqrt(1*1 + ... + 1*1)
UnitEntry == [m \in 1..MaxFeatures |-> FDiv(One, FSqrt(FromInt(m)))]

\* the sparse product sums the products of the entries both rows hold, one
\* column after the other
RECURSIVE SumOf(_, _, _)
SumOf(term, n, acc) == IF n = 0 THEN acc ELSE SumOf(term, n - 1, FAdd(acc, term))

cosine_similarity(x, y) ==
    IF Ones(x) = {} \/ Ones(y) = {} THEN FZero
    ELSE SumOf(FMul(UnitEntry[Cardinality(Ones(x))],
                    UnitEntry[Cardinality(Ones(y))]),
               Cardinality(Ones(x) \cap Ones(y)), FZero)

\* S *= -1; S += 1; releases of scikit-learn from 0.20 on then clip S to [0, 2]
cosine_distances(x, y, clip) ==
    LET S == FAdd(FMul(cosine_similarity(x, y), FromInt(-1)), One)
    IN IF clip /\ FLess(S, FZero) THEN FZero
       ELSE IF clip /\ FLess(FromInt(2), S) THEN FromInt(2)
       ELSE S

\* every 0/1 row of up to MaxFeatures columns, with and without clipping
Rows == UNION {[1..k -> {0, 1}] : k \in 1..MaxFeatures}
Queries == {<<row, clip>> : row \in Rows, clip \in BOOLEAN}

\* the distance of each such row from the row of ones, times 100
DistanceTable ==
    [q \in Queries |->
        FMul(cosine_distances([c \in 1..Len(q[1]) |-> 1], q[1], q[2]),
             FromInt(100))]

distance_fn(x, clip) == [j \in 1..Len(x) |-> DistanceTable[<<x[j], clip>>]]

-----------------------------------------------------------------------------
(* LimeTextExplainer                                                       *)

DecimalDigits == <<"0", "1", "2", "3", "4", "5", "6", "7", "8", "9">>

\* str(x) for an integer x >= 0
RECURSIVE str(_)
str(x) ==
    IF x < 10 THEN <<DecimalDigits[x + 1]>>
    ELSE str(x \div 10) \o <<DecimalDigits[(x % 10) + 1]>>

\* explanation.Explanation(indexed_string, class_names)
Explanation(istr, names) ==
    [indexed_string |-> istr, class_names |-> names, local_exp |-> <<>>,
     top_labels |-> None, predict_proba |-> None]

\* lime_base.explain_instance_with_data(...) for one label: the weights the
\* surrogate fitter returns are not looked into
explain_instance_with_data(label) == "weights"

\* np.argsort(y): the 0-based columns by ascending value; the sort numpy
\* uses for arrays this short keeps equal values in column order
RECURSIVE ArgSortFrom(_, _)
ArgSortFrom(y, left) ==
    IF left = {} THEN <<>>
    ELSE LET m == CHOOSE a \in left : \A b \in left :
                      y[a + 1] < y[b + 1] \/ (y[a + 1] = y[b + 1] /\ a <= b)
         IN <<m>> \o ArgSortFrom(y, left \ {m})
argsort(y) == ArgSortFrom(y, 0..Len(y) - 1)

\* seq[:k], the slice from the other end
FirstK(seq, k) == SubSeq(seq, 1, IF k > Len(seq) THEN Len(seq) ELSE k)
\* seq[-k:] for k >= 1
LastK(seq, k) == SubSeq(seq, IF k > Len(seq) THEN 1 ELSE Len(seq) - k + 1, Len(seq))

Reversed(seq) == [k \in 1..Len(seq) |-> seq[Len(seq) - k + 1]]

\* for label in labels: ret_exp.local_exp[label] = ...
RECURSIVE FitLabels(_, _)
FitLabels(local_exp, labels) ==
    IF labels = <<>> THEN local_exp
    ELSE FitLabels((Head(labels) :> explain_instance_with_data(Head(labels)))
                       @@ local_exp,
                   Tail(labels))

\* a draw whose upper bound is inclusive
SizeRangeInclusive(doc_size) == 1..doc_size
\* np.random.randint(1, doc_size, ...) draws each size from [1, doc_size)
SizeRange(doc_size) == 1..doc_size - 1

\* np.random.choice(features_range, size, replace=False): size distinct ids
Choices(doc_size, size) ==
    {c \in [1..size -> 0..doc_size - 1] :
        \A j, k \in 1..size : j # k => c[j] # c[k]}

\* an assignment that clears only the first of the chosen columns
ZeroFirstOnly(row, inactive) ==
    [k \in 1..Len(row) |-> IF k - 1 = inactive[1] THEN 0 ELSE row[k]]
\* data[i, inactive] = 0 on one row
ZeroAt(row, inactive) ==
    [k \in 1..Len(row) |->
        IF \E j \in 1..Len(inactive) : inactive[j] = k - 1 THEN 0 ELSE row[k]]

IndexedStringUnchanged == UNCHANGED <<op, ret>>

\* explain_instance is entered: indexed_string = IndexedString(text, self.bow)
\* The callers pass labels that are columns of every classifier they use.
ExplainInstance(texts, counts, tops, label) ==
    /\ pc = "idle"
    /\ \E text \in texts, n \in counts, top \in tops :
           /\ args' = [text_instance |-> text, labels |-> <<label>>,
                       top_labels |-> top, num_samples |-> n]
           /\ indexed_string' = IndexedString(text, self_bow)
    /\ pc' = "sample"
    /\ UNCHANGED <<self_bow, class_names, ctor_class_names, sample, data,
                   inverse_data, classifier_calls, yss, distances, ret_exp, err>>
    /\ IndexedStringUnchanged

\* __data_labels_distances up to the loop: doc_size, sample, data,
\* inverse_data.  randint raises ValueError for a negative size and for an
\* empty range [1, doc_size); for an empty range and size 0, numpy before 1.17
\* raises and numpy from 1.17 on returns the empty array.
DrawSample ==
    /\ pc = "sample"
    /\ LET doc_size == num_words(indexed_string)
           n == args.num_samples - 1
       IN \/ /\ n < 0 \/ (doc_size <= 1 /\ n > 0)
             /\ pc' = "raised"
             /\ err' = "ValueError"
             /\ UNCHANGED <<sample, data, inverse_data>>
          \/ /\ doc_size <= 1 /\ n = 0
             /\ \/ /\ pc' = "raised"
                   /\ err' = "ValueError"
                   /\ UNCHANGED <<sample, data, inverse_data>>
                \/ /\ sample' = <<>>
                   /\ data' = <<[k \in 1..doc_size |-> 1]>>
                   /\ inverse_data' = <<raw_string(indexed_string)>>
                   /\ pc' = "perturb"
                   /\ UNCHANGED err
          \/ /\ doc_size > 1 /\ n >= 0
             /\ sample' \in [1..n -> SizeRange(doc_size)]
             /\ data' = [i \in 1..args.num_samples |->
                            [k \in 1..doc_size |-> 1]]
             /\ inverse_data' = <<raw_string(indexed_string)>>
             /\ pc' = "perturb"
             /\ UNCHANGED err
    /\ UNCHANGED <<indexed_string, self_bow, class_names, ctor_class_names, args,
                   classifier_calls, yss, distances, ret_exp>>
    /\ IndexedStringUnchanged

\* one pass of the loop over enumerate(sample, start=1)
Perturb ==
    /\ pc = "perturb"
    /\ Len(inverse_data) <= Len(sample)
    /\ LET i == Len(inverse_data)
           size == sample[i]
       IN \E inactive \in Choices(num_words(indexed_string), size) :
              /\ data' = [data EXCEPT ![i + 1] = ZeroAt(@, inactive)]
              /\ inverse_data' =
                     Append(inverse_data,
                            inverse_removing(indexed_string, inactive).value)
    /\ UNCHANGED <<indexed_string, self_bow, class_names, ctor_class_names, pc,
                   args, sample, classifier_calls, yss, distances, ret_exp, err>>
    /\ IndexedStringUnchanged

\* labels = classifier_fn(inverse_data); distances = distance_fn(...); return.
\* The classifier answers with one row per text; of its answer only row 0 is
\* read here.  Whether the distances are clipped depends on the scikit-learn
\* release.
Classify(widths) ==
    /\ pc = "perturb"
    /\ Len(inverse_data) = Len(sample) + 1
    /\ classifier_calls' = Append(classifier_calls, inverse_data)
    /\ \E L \in widths : \E y \in [1..L -> Probs] :
           yss' = [ncols |-> L, row0 |-> y]
    /\ \E clip \in BOOLEAN : distances' = distance_fn(data, clip)
    /\ pc' = "classified"
    /\ UNCHANGED <<indexed_string, self_bow, class_names, ctor_class_names, args,
                   sample, data, inverse_data, ret_exp, err>>
    /\ IndexedStringUnchanged

\* the rest of explain_instance: class names, the Explanation, the labels to
\* explain and one fit per label
BuildExplanation ==
    /\ pc = "classified"
    /\ LET names == IF class_names = None \/ class_names.names = <<>>
                    THEN [names |-> [x \in 1..yss.ncols |-> str(x - 1)]]
                    ELSE class_names
           top == IF args.top_labels # 0
                  THEN LastK(argsort(yss.row0), args.top_labels)
                  ELSE <<>>
           labels == IF args.top_labels # 0 THEN top ELSE args.labels
           e == Explanation(indexed_string, names.names)
       IN /\ class_names' = names
          /\ ret_exp' = [e EXCEPT !.predict_proba = yss.row0,
                                  !.top_labels = IF args.top_labels # 0
                                                 THEN Reversed(top) ELSE None,
                                  !.local_exp = FitLabels(@, labels)]
    /\ pc' = "done"
    /\ UNCHANGED <<indexed_string, self_bow, ctor_class_names, args, sample, data,
                   inverse_data, classifier_calls, yss, distances, err>>
    /\ IndexedStringUnchanged

\* the call is over (returned or raised): its locals are gone, the explainer
\* keeps its fields
Return ==
    /\ pc \in {"done", "raised"}
    /\ pc' = "idle"
    /\ indexed_string' = None
    /\ args' = None
    /\ sample' = <<>>
    /\ data' = <<>>
    /\ inverse_data' = <<>>
    /\ classifier_calls' = <<>>
    /\ yss' = None
    /\ distances' = <<>>
    /\ ret_exp' = None
    /\ err' = NoError
    /\ UNCHANGED <<self_bow, class_names, ctor_class_names>>
    /\ IndexedStringUnchanged

\* LimeTextExplainer(class_names=names, bow=bow)
InitExplainer(names_given) ==
    /\ self_bow \in BOOLEAN
    /\ ctor_class_names \in names_given
    /\ class_names = ctor_class_names
    /\ indexed_string = None
    /\ op = NoOp
    /\ ret = None
    /\ pc = "idle"
    /\ args = None
    /\ sample = <<>>
    /\ data = <<>>
    /\ inverse_data = <<>>
    /\ classifier_calls = <<>>
    /\ yss = None
    /\ distances = <<>>
    /\ ret_exp = None
    /\ err = NoError

\* explanations of every short text by a two-class classifier
Init == InitExplainer({None})

Next ==
    \/ ExplainInstance(Strings(MaxDocLen), 0..MaxSamples, {0}, 1)
    \/ DrawSample
    \/ Perturb
    \/ Classify({2})
    \/ BuildExplanation
    \/ Return

Spec == Init /\ [][Next]_vars

\* explanations of one two-word text by classifiers of every width, with and
\* without top_labels, by explainers with and without class names
TwoWords == <<"a", " ", "b">>
SuppliedNames == [names |-> <<<<"n">>, <<"p">>>>]

InitLabels == InitExplainer({None, SuppliedNames})

NextLabels ==
    \/ ExplainInstance({TwoWords}, 1..2, 0..MaxClasses, 0)
    \/ DrawSample
    \/ Perturb
    \/ Classify(1..MaxClasses)
    \/ BuildExplanation
    \/ Return

SpecLabels == InitLabels /\ [][NextLabels]_vars

-----------------------------------------------------------------------------
(* Claims about neighbourhood generation, checked under Spec               *)

DocSize == num_words(indexed_string)
ZeroIds(row) == {k - 1 : k \in {c \in 1..Len(row) : row[c] = 0}}
AllOnes(row) == \A k \in 1..Len(row) : row[k] = 1

\* C5: a document with fewer than 2 features makes the call fail before any
\* removal size is drawn and before the classifier is called, whatever
\* num_samples is.
C5_FewFeaturesFailBeforeDraw ==
    (pc \in {"perturb", "classified", "done", "raised"} /\ DocSize < 2)
        => (pc = "raised" /\ sample = <<>> /\ classifier_calls = <<>>)

\* C6: a call that completes has called the classifier exactly once, with
\* num_samples texts in row order: the raw string, then for each row i >= 1
\* the text without exactly the features whose bit is 0 in row i.
C6_OneBatchedClassifierCall ==
    /\ Len(classifier_calls) <= 1
    /\ pc = "done" =>
           /\ Len(classifier_calls) = 1
           /\ Len(classifier_calls[1]) = args.num_samples
           /\ classifier_calls[1][1] = indexed_string.raw
           /\ \A i \in 2..args.num_samples :
                  classifier_calls[1][i] =
                      inverse_removing(indexed_string,
                                       Ascending(ZeroIds(data[i]))).value

\* a completed call with three rows, one of them with two features removed
C6_Witness ==
    /\ pc = "done"
    /\ args.num_samples = 3
    /\ Len(classifier_calls) = 1
    /\ Cardinality(ZeroIds(data[2])) = 2
    /\ Cardinality(ZeroIds(data[3])) = 1
    /\ classifier_calls[1][2] # classifier_calls[1][3]
    /\ classifier_calls[1][3] # indexed_string.raw

\* C7: for a document with at least 2 features and num_samples >= 1, row 0
\* of the design matrix is all ones, its text is the raw string and its
\* distance is exactly 0.
C7_RowZeroIsTheOriginal ==
    (pc \in {"classified", "done"} /\ DocSize >= 2 /\ args.num_samples >= 1)
        => /\ AllOnes(data[1])
           /\ classifier_calls[1][1] = indexed_string.raw
           /\ distances[1].man = <<>>

\* C10: for a document with K >= 2 features every generated row i >= 1 has
\* at least 1 and at most K - 1 zero bits.
C10_RemovalSizeWithinRange ==
    (pc \in {"perturb", "classified", "done"} /\ DocSize >= 2)
        => \A i \in 2..Len(inverse_data) :
               /\ Cardinality(ZeroIds(data[i])) >= 1
               /\ Cardinality(ZeroIds(data[i])) <= DocSize - 1
               /\ Cardinality(ZeroIds(data[i])) = sample[i - 1]

\* three features, one row with the most features removed, one with the least
C10_Witness ==
    /\ pc = "done"
    /\ DocSize = 3
    /\ Len(data) = 3
    /\ Cardinality(ZeroIds(data[2])) = DocSize - 1
    /\ Cardinality(ZeroIds(data[3])) = 1

-----------------------------------------------------------------------------
(* Claims about the labels and class names, checked under SpecLabels       *)

TopSet == {ret_exp.top_labels[k] : k \in 1..Len(ret_exp.top_labels)}
Columns == 0..yss.ncols - 1
Prob(label) == yss.row0[label + 1]

\* C8: with top_labels = K requested, the explained labels are exactly the K
\* most probable labels of row 0 (all labels when K exceeds the number of
\* classes), the labels argument is ignored, local_exp has exactly those keys
\* and top_labels lists them by descending probability.
C8_TopLabelsAreMostProbable ==
    (pc = "done" /\ args.top_labels > 0)
        => /\ Len(ret_exp.top_labels) =
                  (IF args.top_labels > yss.ncols THEN yss.ncols
                   ELSE args.top_labels)
           /\ Cardinality(TopSet) = Len(ret_exp.top_labels)
           /\ TopSet \subseteq Columns
           /\ \A a \in TopSet : \A b \in Columns \ TopSet : Prob(a) >= Prob(b)
           /\ \A k \in 1..Len(ret_exp.top_labels) - 1 :
                  Prob(ret_exp.top_labels[k]) >= Prob(ret_exp.top_labels[k + 1])
           /\ DOMAIN ret_exp.local_exp = TopSet

\* the two most probable of three labels, neither of them the label passed
C8_Witness ==
    /\ pc = "done"
    /\ args.top_labels = 2
    /\ args.labels = <<0>>
    /\ yss.row0 = <<1, 2, 3>>
    /\ ret_exp.top_labels = <<2, 1>>
    /\ DOMAIN ret_exp.local_exp = {1, 2}

\* C9: on an explainer constructed without class names, every call attaches
\* the names "0".."L-1" for the L columns of that call's prediction matrix,
\* also after a call with a classifier of another width.
C9_ClassNamesFollowTheCall ==
    (pc = "done" /\ ctor_class_names = None)
        => ret_exp.class_names = [x \in 1..yss.ncols |-> str(x - 1)]

=============================================================================
